---- MODULE Spec2Model ----
(***************************************************************************)
(* Model of livestream (src/src/livestream.cpp): a ring buffer that a      *)
(* libcurl transfer thread fills (curl_write) and a caller drains (read),  *)
(* with start / stop / seek controlling the transfer thread.               *)
(*                                                                         *)
(* Two threads are modelled.  The caller's operations all hold m_lock for  *)
(* their whole body (read drops it only while it waits for head != tail),  *)
(* so they are serialised and share one program counter, cpc.  The worker  *)
(* thread runs transfer_func; libcurl calls the header, write and progress *)
(* callbacks synchronously inside curl_easy_perform, so they share wpc.    *)
(*                                                                         *)
(* A byte of the stream is represented by its server-absolute offset, so   *)
(* the ring holds offsets and a read returns a sequence of offsets.        *)
(***************************************************************************)
EXTENDS Integers, Sequences, FiniteSets, TLC

\* ---- bounds of the model -------------------------------------------------
\* m_buffersize, the capacity of the ring (scaled down from a multiple of 64 KiB)
BufferSize == 4
\* WRITE_PADDING, the free space the writer always keeps (scaled down)
WRITE_PADDING == 1
\* the stream ends at this server-absolute offset: the server has no byte >= MaxPos
MaxPos == 5
\* largest chunk libcurl hands to curl_write in one call
MaxChunk == 2
\* largest count passed to read
MaxRead == 2

\* CURLOPT_RANGE was not set on the session
NoRange == -1
\* a byte of the ring that the running transfer did not write
Stale == -1

Min(a, b) == IF a < b THEN a ELSE b

Indices == 0 .. (BufferSize - 1)
Positions == 0 .. MaxPos

VARIABLES
    \* ---- livestream members
    m_buffer,       \* ring storage: index -> offset of the byte stored there, or Stale
    m_bufferhead,   \* atomic write cursor
    m_buffertail,   \* atomic read cursor
    m_startpos, m_readpos, m_writepos,
    m_length,       \* atomic: largest write position seen
    m_started,      \* scalar_condition<bool>
    m_paused,       \* atomic<bool>
    m_stop,         \* atomic<bool>
    m_curl,         \* TRUE iff m_curl != nullptr (a transport session exists)
    m_curlresult,   \* "OK", "FAIL" (any transport error) or "ABORTED"
    m_worker,       \* m_worker.joinable()
    \* ---- the transport session and the server behind it
    range,          \* CURLOPT_RANGE of the session: NoRange or the first offset asked for
    xferpaused,     \* libcurl has the transfer paused (CURL_WRITEFUNC_PAUSE was returned)
    hdrdone,        \* the response headers of the running transfer were delivered
    srvpos,         \* offset of the next byte libcurl will hand to curl_write
    pending,        \* size of the chunk libcurl holds for (re-)delivery, 0 if none
    \* ---- worker thread
    wpc,            \* position of the worker thread
    threads,        \* number of worker threads created and not yet joined
    w_head, w_tail, \* curl_write's local snapshot of head and tail
    \* ---- caller thread
    cpc,            \* position of the caller inside a blocking operation, or "idle"
    c_position,     \* seek's argument while it blocks
    c_count,        \* read's count while it copies
    c_head, c_tail, \* read's local snapshot of head and tail
    \* ---- the call that returned in the step that led to this state
    op,             \* its name, or "none" when the last step returned from no call
    arg,            \* its argument: seek's position, read's count, else 0
    ret,            \* its return value (or -1 when it raised)
    err,            \* the error it raised, or "none"
    rd_bytes,       \* the bytes it copied out, when it is a read
    \* ---- history of the running transfer (observations)
    xfer_first,     \* offset of the first byte the server sent in this transfer
    xfer_accepted,  \* number of bytes curl_write copied in this transfer
    xfer_read,      \* number of bytes read returned in this transfer
    xfer_seeked     \* an in-buffer seek happened in this transfer

mem == <<m_buffer, m_bufferhead, m_buffertail, m_startpos, m_readpos, m_writepos,
         m_length, m_started, m_paused, m_stop, m_curl, m_curlresult, m_worker>>
net == <<range, xferpaused, hdrdone, srvpos, pending>>
wrk == <<wpc, threads, w_head, w_tail>>
clr == <<cpc, c_position, c_count, c_head, c_tail>>
clr0 == <<c_position, c_count, c_head, c_tail>>
obs == <<op, arg, ret, err, rd_bytes>>
hist == <<xfer_first, xfer_accepted, xfer_read, xfer_seeked>>
vars == <<mem, net, wrk, clr, obs, hist>>

\* livestream::livestream: the ring is allocated, no session, no worker.
Init ==
    /\ m_buffer = [i \in Indices |-> Stale]
    /\ m_bufferhead = 0
    /\ m_buffertail = 0
    /\ m_startpos = 0
    /\ m_readpos = 0
    /\ m_writepos = 0
    /\ m_length = 0
    /\ m_started = FALSE
    /\ m_paused = FALSE
    /\ m_stop = FALSE
    /\ m_curl = FALSE
    /\ m_curlresult = "OK"
    /\ m_worker = FALSE
    /\ range = NoRange
    /\ xferpaused = FALSE
    /\ hdrdone = FALSE
    /\ srvpos = 0
    /\ pending = 0
    /\ wpc = "none"
    /\ threads = 0
    /\ w_head = 0
    /\ w_tail = 0
    /\ cpc = "idle"
    /\ c_position = 0
    /\ c_count = 0
    /\ c_head = 0
    /\ c_tail = 0
    /\ op = "none"
    /\ arg = 0
    /\ ret = 0
    /\ err = "none"
    /\ rd_bytes = <<>>
    /\ xfer_first = 0
    /\ xfer_accepted = 0
    /\ xfer_read = 0
    /\ xfer_seeked = FALSE

\* ---- pure helpers --------------------------------------------------------

\* curl_write, line 177: the space the writer believes is free
Available(head, tail) ==
    IF head < tail THEN tail - head ELSE (BufferSize - head) + tail

\* curl_write, lines 181-194: copy cb bytes, the first of which has offset off,
\* into buf starting at head; tail is the snapshot taken at line 173.
\* The result is the new buffer and the new head.
\* the loop of lines 181-194 left after its first pass: only the bytes up to
\* the end of the ring (or up to the tail) are copied
WriteLoopOnce(buf, head, tail, cb, off) ==
    LET chunk == IF head < tail THEN Min(cb, tail - head)
                                ELSE Min(cb, BufferSize - head)
        nbuf == [i \in Indices |->
                   IF i >= head /\ i < head + chunk THEN off + (i - head)
                                                    ELSE buf[i]]
        h1 == head + chunk
    IN [buf |-> nbuf, head |-> IF h1 >= BufferSize THEN 0 ELSE h1]

RECURSIVE WriteLoop(_, _, _, _, _)
WriteLoop(buf, head, tail, cb, off) ==
    IF cb = 0 THEN [buf |-> buf, head |-> head]
    ELSE LET chunk == IF head < tail THEN Min(cb, tail - head)
                                     ELSE Min(cb, BufferSize - head)
             nbuf == [i \in Indices |->
                        IF i >= head /\ i < head + chunk THEN off + (i - head)
                                                         ELSE buf[i]]
             h1 == head + chunk
             h2 == IF h1 >= BufferSize THEN 0 ELSE h1
         IN WriteLoop(nbuf, h2, tail, cb - chunk, off + chunk)

\* read, lines 281-297: copy up to count bytes from buf starting at tail, up to
\* head; out is what was copied so far.  The result is the bytes and the new tail.
RECURSIVE ReadLoop(_, _, _, _, _)
ReadLoop(buf, head, tail, count, out) ==
    IF count = 0 THEN [bytes |-> out, tail |-> tail]
    ELSE LET chunk == IF tail < head THEN Min(count, head - tail)
                                     ELSE Min(count, BufferSize - tail)
             got == [k \in 1 .. chunk |-> buf[tail + k - 1]]
             t1 == tail + chunk
             t2 == IF t1 >= BufferSize THEN 0 ELSE t1
         IN IF t2 = head THEN [bytes |-> out \o got, tail |-> t2]
            ELSE ReadLoop(buf, head, t2, count - chunk, out \o got)

\* seek, line 362: the smallest position the ring still represents
MinPos ==
    IF (m_writepos - m_startpos) > BufferSize THEN m_writepos - BufferSize
                                              ELSE m_startpos

\* seek, lines 367-377: the tail an in-buffer seek to position stores
SeekTail(position) ==
    IF MinPos = m_startpos THEN position - m_startpos
    ELSE LET tail == m_bufferhead
             delta == position - MinPos
         IN IF delta >= (BufferSize - tail) THEN delta - (BufferSize - tail)
                                            ELSE tail + delta

\* the test of line 364 with its second comparison strict
InBufferBelowWritepos(position) == position >= MinPos /\ position < m_writepos

\* seek, line 364: the seek can be served from the ring
InBuffer(position) == position >= MinPos /\ position <= m_writepos

\* The first offset the server may send for a request with the given range and
\* whether it says so in a Content-Range header.  A server that honours the
\* range starts at it and says so; one that ignores it sends the whole
\* resource, from offset 0, without Content-Range.  A request without a range
\* is answered from offset 0 or, with Content-Range, from the live position.
ServerReplies(r) ==
    {[first |-> 0, header |-> FALSE],
     [first |-> IF r = NoRange THEN 1 ELSE r, header |-> TRUE]}

\* ---- fragments shared by the caller's operations -------------------------

\* reset_stream_state without line 335: the tail is left where it was
reset_keeps_tail ==
    /\ m_started' = FALSE
    /\ m_paused' = FALSE
    /\ m_stop' = FALSE
    /\ m_startpos' = 0
    /\ m_readpos' = 0
    /\ m_writepos' = 0
    /\ m_bufferhead' = 0
    /\ UNCHANGED m_buffertail

\* reset_stream_state without line 327: the stop flag is left as it was
reset_keeps_stop ==
    /\ m_started' = FALSE
    /\ m_paused' = FALSE
    /\ UNCHANGED m_stop
    /\ m_startpos' = 0
    /\ m_readpos' = 0
    /\ m_writepos' = 0
    /\ m_bufferhead' = 0
    /\ m_buffertail' = 0

\* reset_stream_state, lines 324-335 (the two throws cannot happen: every caller
\* owns m_lock and has just joined the worker)
reset_stream_state ==
    /\ m_started' = FALSE
    /\ m_paused' = FALSE
    /\ m_stop' = FALSE
    /\ m_startpos' = 0
    /\ m_readpos' = 0
    /\ m_writepos' = 0
    /\ m_bufferhead' = 0
    /\ m_buffertail' = 0

\* m_worker = std::thread(&livestream::transfer_func, this), lines 406 and 454:
\* a new thread, and a transfer that has not yet exchanged anything
spawn_worker(nthreads) ==
    /\ m_worker' = TRUE
    /\ threads' = nthreads + 1
    /\ wpc' = "spawned"
    /\ hdrdone' = FALSE
    /\ xferpaused' = FALSE
    /\ pending' = 0
    /\ srvpos' = 0
    /\ xfer_first' = 0
    /\ xfer_accepted' = 0
    /\ xfer_read' = 0
    /\ xfer_seeked' = FALSE

\* m_worker.join(), lines 386 and 489: returns once the thread function
\* returned.  The transfer that thread ran is over: the bytes it left in the
\* ring stay where they are (nothing in stop or seek clears m_buffer), and the
\* model remembers of them only that they are not the next transfer's.
join_worker ==
    /\ wpc = "exited"
    /\ m_buffer' = [i \in Indices |-> Stale]

\* no call returned in this step
Quiet ==
    /\ op' = "none"
    /\ arg' = 0
    /\ ret' = 0
    /\ err' = "none"
    /\ rd_bytes' = <<>>

\* a call other than read, made with argument a, returns v
Return(name, a, v) ==
    /\ op' = name
    /\ arg' = a
    /\ ret' = v
    /\ err' = "none"
    /\ rd_bytes' = <<>>

\* read returns the bytes it copied
ReturnRead(count, bytes) ==
    /\ op' = "read"
    /\ arg' = count
    /\ ret' = Len(bytes)
    /\ err' = "none"
    /\ rd_bytes' = bytes

\* a call made with argument a raises e
Raise(name, a, e) ==
    /\ op' = name
    /\ arg' = a
    /\ ret' = -1
    /\ err' = e
    /\ rd_bytes' = <<>>

\* ---- the worker thread ---------------------------------------------------

\* transfer_func, lines 518-519, up to the call of curl_easy_perform
transfer_func_begin ==
    /\ wpc = "spawned"
    /\ m_curlresult' = "OK"
    /\ wpc' = "perform"
    /\ UNCHANGED <<m_buffer, m_bufferhead, m_buffertail, m_startpos, m_readpos,
                   m_writepos, m_length, m_started, m_paused, m_stop, m_curl,
                   m_worker>>
    /\ UNCHANGED <<net, threads, w_head, w_tail, clr, hist>>
    /\ Quiet

\* curl_responseheaders, lines 83-115, for the header lines of one response:
\* only a Content-Range line changes anything (line 110)
curl_responseheaders ==
    /\ wpc = "perform"
    /\ ~hdrdone
    /\ \E reply \in ServerReplies(range) :
          /\ srvpos' = reply.first
          /\ xfer_first' = reply.first
          /\ IF reply.header
                THEN /\ m_startpos' = reply.first
                     /\ m_readpos' = reply.first
                     /\ m_writepos' = reply.first
                ELSE UNCHANGED <<m_startpos, m_readpos, m_writepos>>
    /\ hdrdone' = TRUE
    /\ UNCHANGED <<m_buffer, m_bufferhead, m_buffertail, m_length, m_started,
                   m_paused, m_stop, m_curl, m_curlresult, m_worker>>
    /\ UNCHANGED <<range, xferpaused, pending, wrk, clr>>
    /\ UNCHANGED <<xfer_accepted, xfer_read, xfer_seeked>>
    /\ Quiet

\* The chunks libcurl may hand to curl_write next: the one it holds after a
\* pause, else any size the stream still has.
Chunks ==
    IF pending > 0 THEN {pending}
    ELSE {n \in 1 .. MaxChunk : srvpos + n <= MaxPos}

\* the check of line 178 with the padding forgotten
WriteRefusedNoPadding(cb) == Available(m_bufferhead, m_buffertail) < cb

\* curl_write, line 178: the chunk does not fit, pause the transfer
WriteRefused(cb) == Available(m_bufferhead, m_buffertail) < cb + WRITE_PADDING

\* curl_write, lines 156-178: take m_writelock, snapshot head and tail, and
\* either return CURL_WRITEFUNC_PAUSE or go on to copy
curl_write_begin ==
    /\ wpc = "perform"
    /\ hdrdone
    /\ ~xferpaused
    /\ \E cb \in Chunks :
          /\ pending' = cb
          /\ IF WriteRefused(cb)
                THEN /\ m_paused' = TRUE
                     /\ xferpaused' = TRUE
                     /\ UNCHANGED <<wpc, w_head, w_tail>>
                ELSE /\ w_head' = m_bufferhead
                     /\ w_tail' = m_buffertail
                     /\ wpc' = "write_copy"
                     /\ UNCHANGED <<m_paused, xferpaused>>
    /\ UNCHANGED <<m_buffer, m_bufferhead, m_buffertail, m_startpos, m_readpos,
                   m_writepos, m_length, m_started, m_stop, m_curl, m_curlresult,
                   m_worker>>
    /\ UNCHANGED <<range, hdrdone, srvpos, threads, clr, hist>>
    /\ Quiet

\* curl_write, lines 181-199: copy the chunk and publish the new head
curl_write_copy ==
    /\ wpc = "write_copy"
    /\ LET r == WriteLoop(m_buffer, w_head, w_tail, pending, srvpos)
       IN /\ m_buffer' = r.buf
          /\ m_bufferhead' = r.head
    /\ xfer_accepted' = xfer_accepted + pending
    /\ wpc' = "write_commit"
    /\ w_head' = 0
    /\ w_tail' = 0
    /\ UNCHANGED <<m_buffertail, m_startpos, m_readpos, m_writepos, m_length,
                   m_started, m_paused, m_stop, m_curl, m_curlresult, m_worker>>
    /\ UNCHANGED <<net, threads, clr>>
    /\ UNCHANGED <<xfer_first, xfer_read, xfer_seeked>>
    /\ Quiet

\* line 207 without its comparison: the length follows writepos
NewLengthFollows(wp) == wp

\* curl_write, line 207: the length after a write that left writepos at wp
NewLength(wp) == IF wp > m_length THEN wp ELSE m_length

\* curl_write, lines 204-213: advance writepos, raise length, release the
\* waiter on m_started, release m_writelock and return the byte count
curl_write_commit ==
    /\ wpc = "write_commit"
    /\ m_writepos' = m_writepos + pending
    /\ m_length' = NewLength(m_writepos + pending)
    /\ m_started' = TRUE
    /\ srvpos' = srvpos + pending
    /\ pending' = 0
    /\ wpc' = "perform"
    /\ UNCHANGED <<m_buffer, m_bufferhead, m_buffertail, m_startpos, m_readpos,
                   m_paused, m_stop, m_curl, m_curlresult, m_worker>>
    /\ UNCHANGED <<range, xferpaused, hdrdone, threads, w_head, w_tail, clr,
                   hist>>
    /\ Quiet

\* curl_easy_perform is over: libcurl's state of the transfer is gone
transfer_over ==
    /\ xferpaused' = FALSE
    /\ hdrdone' = FALSE
    /\ srvpos' = 0
    /\ pending' = 0

\* curl_transfercontrol without line 136: the stop flag is not looked at
StopNeverSeen == FALSE

\* curl_transfercontrol, line 136: a stop was signalled
StopSeen == m_stop

\* line 139 without its call of curl_easy_pause: libcurl is not told to go on
NotResumed == UNCHANGED xferpaused

\* curl_transfercontrol, line 139: curl_easy_pause(m_curl, CURLPAUSE_CONT)
Resumed == xferpaused' = FALSE

\* curl_transfercontrol, lines 130-142: the progress callback.  A signalled
\* stop is consumed and aborts the transfer: curl_easy_perform returns
\* CURLE_ABORTED_BY_CALLBACK, which transfer_func stores (line 523).  Else a
\* pause is consumed and the transfer resumed.
curl_transfercontrol ==
    /\ wpc = "perform"
    /\ IF StopSeen
          THEN /\ m_stop' = FALSE
               /\ m_curlresult' = "ABORTED"
               /\ wpc' = "performed"
               /\ transfer_over
               /\ UNCHANGED m_paused
          ELSE /\ m_paused
               /\ m_paused' = FALSE
               /\ Resumed
               /\ UNCHANGED <<m_stop, m_curlresult, wpc, hdrdone, srvpos, pending>>
    /\ UNCHANGED <<m_buffer, m_bufferhead, m_buffertail, m_startpos, m_readpos,
                   m_writepos, m_length, m_started, m_curl, m_worker>>
    /\ UNCHANGED <<range, threads, w_head, w_tail, clr, hist>>
    /\ Quiet

\* transfer_func, line 523: curl_easy_perform returns by itself, with success
\* (the stream ended, nothing left to deliver) or with a transport error
curl_easy_perform_returns ==
    /\ wpc = "perform"
    /\ \E result \in {"OK", "FAIL"} :
          /\ result = "OK" => (hdrdone /\ pending = 0)
          /\ m_curlresult' = result
    /\ wpc' = "performed"
    /\ transfer_over
    /\ UNCHANGED <<m_buffer, m_bufferhead, m_buffertail, m_startpos, m_readpos,
                   m_writepos, m_length, m_started, m_paused, m_stop, m_curl,
                   m_worker>>
    /\ UNCHANGED <<range, threads, w_head, w_tail, clr, hist>>
    /\ Quiet

\* transfer_func without line 524: the end of the transfer is not signalled
EndNotSignalled == UNCHANGED m_started

\* transfer_func, line 524: m_started = true
EndSignalled == m_started' = TRUE

\* transfer_func, line 524: release the waiter on m_started; the thread ends
transfer_func_end ==
    /\ wpc = "performed"
    /\ EndSignalled
    /\ wpc' = "exited"
    /\ UNCHANGED <<m_buffer, m_bufferhead, m_buffertail, m_startpos, m_readpos,
                   m_writepos, m_length, m_paused, m_stop, m_curl, m_curlresult,
                   m_worker>>
    /\ UNCHANGED <<net, threads, w_head, w_tail, clr, hist>>
    /\ Quiet

\* ---- the caller: start --------------------------------------------------

\* start without the check of line 431
StartNeverRefused == FALSE

\* start, line 431: the call is refused while a worker is joinable
StartRefused == m_worker

\* start, lines 428-431: refused, nothing was touched
start_refused ==
    /\ cpc = "idle"
    /\ StartRefused
    /\ Raise("start", 0, "already active")
    /\ UNCHANGED <<mem, net, wrk, clr, hist>>

\* start, lines 434-451 and 465: curl_easy_init or a curl_easy_setopt fails;
\* the session, if one was made, is cleaned up and m_curl is null again
start_setup_fails ==
    /\ cpc = "idle"
    /\ ~StartRefused
    /\ m_curl' = FALSE
    /\ Raise("start", 0, "setup failed")
    /\ UNCHANGED <<m_buffer, m_bufferhead, m_buffertail, m_startpos, m_readpos,
                   m_writepos, m_length, m_started, m_paused, m_stop,
                   m_curlresult, m_worker>>
    /\ UNCHANGED <<net, wrk, clr, hist>>

\* start, lines 434-455: a new session without a range, a new worker, and the
\* caller waits for m_started
start_begin ==
    /\ cpc = "idle"
    /\ ~StartRefused
    /\ m_curl' = TRUE
    /\ range' = NoRange
    /\ spawn_worker(threads)
    /\ cpc' = "start_wait"
    /\ UNCHANGED <<m_buffer, m_bufferhead, m_buffertail, m_startpos, m_readpos,
                   m_writepos, m_length, m_started, m_paused, m_stop,
                   m_curlresult>>
    /\ UNCHANGED <<w_head, w_tail, clr0>>
    /\ Quiet

\* start and seek, lines 410 and 458: the transfer is taken to have failed
TransferFailed == m_curlresult # "OK"

\* start, lines 455-465: m_started is true; raise if the result is not CURLE_OK
\* (the catch block cleans the session up), else return m_readpos
start_wait ==
    /\ cpc = "start_wait"
    /\ m_started
    /\ IF TransferFailed
          THEN /\ m_curl' = FALSE
               /\ Raise("start", 0, "transfer failed")
          ELSE /\ Return("start", 0, m_readpos)
               /\ UNCHANGED m_curl
    /\ cpc' = "idle"
    /\ UNCHANGED <<m_buffer, m_bufferhead, m_buffertail, m_startpos, m_readpos,
                   m_writepos, m_length, m_started, m_paused, m_stop,
                   m_curlresult, m_worker>>
    /\ UNCHANGED <<net, wrk, clr0, hist>>

\* ---- the caller: stop ---------------------------------------------------

\* stop, line 485: there is nothing to stop
StopIdle == ~m_worker

\* stop, lines 481-485: no worker, return 0
stop_idle ==
    /\ cpc = "idle"
    /\ StopIdle
    /\ Return("stop", 0, 0)
    /\ UNCHANGED <<mem, net, wrk, clr, hist>>

\* stop, lines 488-489: signal the worker and start waiting for it
stop_begin ==
    /\ cpc = "idle"
    /\ ~StopIdle
    /\ m_stop' = TRUE
    /\ cpc' = "stop_join"
    /\ UNCHANGED <<m_buffer, m_bufferhead, m_buffertail, m_startpos, m_readpos,
                   m_writepos, m_length, m_started, m_paused, m_curl,
                   m_curlresult, m_worker>>
    /\ UNCHANGED <<net, wrk, c_position, c_count, c_head, c_tail, hist>>
    /\ Quiet

\* stop, line 496: the length after a stop
StoppedLength == 0

\* stop, lines 489-503: the worker is joined; reset everything, drop the session
stop_join ==
    /\ cpc = "stop_join"
    /\ join_worker
    /\ m_worker' = FALSE
    /\ threads' = threads - 1
    /\ wpc' = "none"
    /\ reset_stream_state
    /\ m_length' = StoppedLength
    /\ m_curl' = FALSE
    /\ Return("stop", 0, m_readpos)
    /\ cpc' = "idle"
    /\ UNCHANGED c_position
    /\ UNCHANGED m_curlresult
    /\ UNCHANGED <<net, w_head, w_tail, c_count, c_head, c_tail, hist>>

\* ---- the caller: seek ---------------------------------------------------

\* seek, line 352: the position is the current one
seek_nothing ==
    /\ cpc = "idle"
    /\ \E position \in Positions :
          /\ position = m_readpos
          /\ Return("seek", position, position)
    /\ UNCHANGED <<mem, net, wrk, clr, hist>>

\* seek without the check of line 355
SeekNeverInactive == FALSE

\* seek, line 355: there is no worker to seek
SeekInactive == ~m_worker

\* seek, lines 349-355: the transfer is not active
seek_inactive ==
    /\ cpc = "idle"
    /\ \E position \in Positions :
          /\ position # m_readpos
          /\ SeekInactive
          /\ Raise("seek", position, "inactive")
    /\ UNCHANGED <<mem, net, wrk, clr, hist>>

\* m_writelock is free: curl_write holds it from line 168 until it returns
WriteLockFree == wpc \notin {"write_copy", "write_commit"}

\* seek, lines 359-382: with m_writelock held, move the tail inside the ring
seek_in_buffer ==
    /\ cpc = "idle"
    /\ ~SeekInactive
    /\ WriteLockFree
    /\ \E position \in Positions :
          /\ position # m_readpos
          /\ InBuffer(position)
          /\ m_buffertail' = SeekTail(position)
          /\ m_readpos' = position
          /\ Return("seek", position, position)
    /\ xfer_seeked' = TRUE
    /\ xfer_read' = 0
    /\ UNCHANGED <<m_buffer, m_bufferhead, m_startpos, m_writepos, m_length,
                   m_started, m_paused, m_stop, m_curl, m_curlresult, m_worker>>
    /\ UNCHANGED <<net, wrk, clr, xfer_first, xfer_accepted>>

\* seek, lines 359-386: the position is outside the ring; release
\* m_writelock, signal the worker and start waiting for it
seek_restart ==
    /\ cpc = "idle"
    /\ ~SeekInactive
    /\ WriteLockFree
    /\ \E position \in Positions :
          /\ position # m_readpos
          /\ ~InBuffer(position)
          /\ c_position' = position
    /\ m_stop' = TRUE
    /\ cpc' = "seek_join"
    /\ UNCHANGED <<m_buffer, m_bufferhead, m_buffertail, m_startpos, m_readpos,
                   m_writepos, m_length, m_started, m_paused, m_curl,
                   m_curlresult, m_worker>>
    /\ UNCHANGED <<net, wrk, c_count, c_head, c_tail, hist>>
    /\ Quiet

\* snprintf of line 392 given the position the stream was at, not the target
SeekRangeCurrent(position) == m_readpos

\* seek, lines 391-394: the range "<position>-" set on the session
SeekRange(position) == position

\* seek, line 394: curl_easy_setopt(m_curl, CURLOPT_RANGE, ...) can succeed
\* only on a session; on one it can still fail (it copies the string)
RangeCanBeSet == m_curl

\* the failure path without lines 399-400: the session is kept
FatalCleanupSkipped == UNCHANGED m_curl

\* seek, lines 399-400: curl_easy_cleanup(m_curl); m_curl = nullptr
FatalCleanup == m_curl' = FALSE

\* seek, lines 386-403: the worker is joined and the state reset, but the
\* range cannot be set: the session is cleaned up and the call raises
seek_join_fatal ==
    /\ cpc = "seek_join"
    /\ join_worker
    /\ m_worker' = FALSE
    /\ threads' = threads - 1
    /\ wpc' = "none"
    /\ reset_stream_state
    /\ FatalCleanup
    /\ Raise("seek", c_position, "setopt failed")
    /\ cpc' = "idle"
    /\ c_position' = 0
    /\ UNCHANGED <<m_length, m_curlresult>>
    /\ UNCHANGED <<net, w_head, w_tail, c_count, c_head, c_tail, hist>>

\* seek, lines 386-407: the worker is joined, the state reset, the range set
\* to "<position>-", a new worker made, and the caller waits for m_started
seek_join ==
    /\ cpc = "seek_join"
    /\ join_worker
    /\ RangeCanBeSet
    /\ reset_stream_state
    /\ range' = SeekRange(c_position)
    /\ spawn_worker(threads - 1)
    /\ cpc' = "seek_wait"
    /\ UNCHANGED <<m_length, m_curl, m_curlresult>>
    /\ UNCHANGED <<w_head, w_tail, clr0>>
    /\ Quiet

\* seek, lines 407-414: m_started is true; raise if the result is not
\* CURLE_OK, else return m_readpos
seek_wait ==
    /\ cpc = "seek_wait"
    /\ m_started
    /\ IF TransferFailed
          THEN Raise("seek", c_position, "restart failed")
          ELSE Return("seek", c_position, m_readpos)
    /\ cpc' = "idle"
    /\ c_position' = 0
    /\ UNCHANGED <<mem, net, wrk, c_count, c_head, c_tail, hist>>

\* ---- the caller: read ---------------------------------------------------

\* read, lines 269-278: the wait ends with the ring still empty; return 0
read_timeout ==
    /\ cpc = "idle"
    /\ m_bufferhead = m_buffertail
    /\ \E count \in 1 .. MaxRead : ReturnRead(count, <<>>)
    /\ UNCHANGED <<mem, net, wrk, clr, hist>>

\* read, lines 266-278: the wait ends with head != tail; both are snapshotted
read_begin ==
    /\ cpc = "idle"
    /\ m_bufferhead # m_buffertail
    /\ \E count \in 1 .. MaxRead : c_count' = count
    /\ c_head' = m_bufferhead
    /\ c_tail' = m_buffertail
    /\ cpc' = "reading"
    /\ UNCHANGED <<mem, net, wrk, c_position, hist>>
    /\ Quiet

\* read, lines 281-304: copy, publish the tail, advance m_readpos
read_copy ==
    /\ cpc = "reading"
    /\ LET r == ReadLoop(m_buffer, c_head, c_tail, c_count, <<>>)
       IN /\ m_buffertail' = r.tail
          /\ m_readpos' = m_readpos + Len(r.bytes)
          /\ ReturnRead(c_count, r.bytes)
          /\ xfer_read' = IF xfer_seeked THEN 0 ELSE xfer_read + Len(r.bytes)
    /\ cpc' = "idle"
    /\ UNCHANGED <<m_buffer, m_bufferhead, m_startpos, m_writepos, m_length,
                   m_started, m_paused, m_stop, m_curl, m_curlresult, m_worker>>
    /\ c_count' = 0
    /\ c_head' = 0
    /\ c_tail' = 0
    /\ UNCHANGED <<net, wrk, c_position, xfer_first, xfer_accepted, xfer_seeked>>

\* ---- the system ---------------------------------------------------------

Worker ==
    \/ transfer_func_begin
    \/ curl_responseheaders
    \/ curl_write_begin
    \/ curl_write_copy
    \/ curl_write_commit
    \/ curl_transfercontrol
    \/ curl_easy_perform_returns
    \/ transfer_func_end

Caller ==
    \/ start_refused
    \/ start_setup_fails
    \/ start_begin
    \/ start_wait
    \/ stop_idle
    \/ stop_begin
    \/ stop_join
    \/ seek_nothing
    \/ seek_inactive
    \/ seek_in_buffer
    \/ seek_restart
    \/ seek_join_fatal
    \/ seek_join
    \/ seek_wait
    \/ read_timeout
    \/ read_begin
    \/ read_copy

Next == Worker \/ Caller

Spec == Init /\ [][Next]_vars

\* The threads are scheduled fairly: the worker thread keeps running while it
\* can, libcurl calls the progress callback if the transfer stays in a state
\* in which the callback has something to do (libcurl calls it periodically,
\* also while the transfer is paused), and a caller whose join or whose wait
\* for m_started is over goes on.
FairSpec ==
    /\ Spec
    /\ WF_vars(Worker)
    /\ WF_vars(curl_transfercontrol)
    /\ WF_vars(stop_join)
    /\ WF_vars(start_wait)
    /\ WF_vars(seek_wait)

\* A consumer that starts the stream, reads it and stops it, and never seeks.
Consumer ==
    \/ start_begin
    \/ start_wait
    \/ read_timeout
    \/ read_begin
    \/ read_copy
    \/ stop_begin
    \/ stop_join

NextFlow == Worker \/ Consumer

\* The stream as that consumer drives it, with the threads scheduled fairly and
\* the consumer reading whenever the ring has data for it: a start whose wait
\* for m_started is over returns, and a read that finds head != tail copies
\* and returns.
FlowSpec ==
    /\ Init
    /\ [][NextFlow]_vars
    /\ WF_vars(Worker)
    /\ WF_vars(curl_transfercontrol)
    /\ WF_vars(start_wait)
    /\ WF_vars(read_begin)
    /\ WF_vars(read_copy)

\* ---- properties ---------------------------------------------------------

\* the offsets first, first + 1, ..., first + n - 1
Run(first, n) == [k \in 1 .. n |-> first + k - 1]

\* C1: stream fidelity without seeks.  A read that returns bytes, in a transfer
\* in which no in-buffer seek was made, returns the bytes at the offsets
\* readpos .. readpos + n - 1 (readpos as it was before the call); that readpos
\* is the offset of the transfer's first byte plus the number of bytes the
\* earlier reads returned, so the reads concatenate to the stream from its
\* first byte on without gap or repetition; and no more was read than
\* curl_write accepted.
C1_StreamFidelity ==
    (op = "read" /\ ret > 0 /\ ~xfer_seeked) =>
        /\ rd_bytes = Run(m_readpos - ret, ret)
        /\ m_readpos - ret = xfer_first + (xfer_read - ret)
        /\ xfer_read <= xfer_accepted

\* a read returned two bytes from both sides of the wrap while curl_write was
\* between publishing head and advancing writepos
C1_Witness ==
    /\ op = "read"
    /\ ret = 2
    /\ ~xfer_seeked
    /\ m_buffertail = 1
    /\ m_readpos > m_startpos + BufferSize
    /\ wpc = "write_commit"

\* C2: in-buffer seek fidelity.  Every read that returns bytes, also after
\* in-buffer seeks, returns the bytes at the offsets readpos .. readpos + n - 1.
C2_SeekFidelity ==
    (op = "read" /\ ret > 0) => rd_bytes = Run(m_readpos - ret, ret)

\* C3: length changes only in two ways: a write raises it to the new writepos,
\* or the stop that joined a worker sets it to 0.  Nothing else (no seek, no
\* restart, no header, no failed start) changes it, so it never decreases
\* except by that stop.
C3_LengthMonotone ==
    [][m_length' # m_length =>
         \/ /\ wpc = "write_commit"
            /\ m_length' = m_writepos'
            /\ m_length' > m_length
         \/ /\ cpc = "stop_join"
            /\ op' = "stop"
            /\ m_worker
            /\ m_length' = 0]_vars

\* an out-of-buffer seek went back, and the restarted transfer has written
\* below the length kept from before
C3_Witness ==
    /\ op = "seek"
    /\ err = "none"
    /\ range # NoRange
    /\ m_writepos > m_startpos
    /\ m_length > m_writepos

\* the state reset_stream_state leaves, read in the state after the step
ResetDone ==
    /\ m_startpos' = 0
    /\ m_readpos' = 0
    /\ m_writepos' = 0
    /\ m_bufferhead' = 0
    /\ m_buffertail' = 0
    /\ ~m_started'
    /\ ~m_paused'
    /\ ~m_stop'

\* C4: the postcondition of stop.  A stop that finds no joinable worker returns
\* 0 and changes nothing.  A stop that finds one returns the readpos of the
\* moment the worker was joined and leaves no joinable worker, no thread, no
\* session, positions, ring indices and flags reset and length 0.  Neither
\* raises.
C4_StopPostcondition ==
    [][op' = "stop" =>
         /\ err' = "none"
         /\ IF ~m_worker
               THEN /\ ret' = 0
                    /\ UNCHANGED <<mem, net, wrk, hist>>
               ELSE /\ ret' = m_readpos
                    /\ wpc = "exited"
                    /\ ~m_worker'
                    /\ threads' = 0
                    /\ ~m_curl'
                    /\ ResetDone
                    /\ m_length' = 0]_vars

\* stop returned the position of a stream that had been read, after the tail
\* and the length had moved
C4_Witness ==
    /\ op = "stop"
    /\ ret > 1
    /\ m_buffertail = 0
    /\ m_length = 0
    /\ ~m_worker

\* C5: an out-of-buffer seek.  It begins on a running instance with a target
\* that is neither readpos nor inside [MinPos, writepos], and signals stop.  It
\* goes on only once the old thread has ended: then the state is reset, length
\* and session are kept, the range of the session is the target, no byte of
\* the old transfer is left in the ring, and exactly one thread exists.  The
\* Content-Range header of a transfer sets startpos = readpos = writepos to the
\* start the server reports.  A seek that returns successfully from the
\* restart returns readpos, which is startpos and the offset of the first byte
\* the new transfer delivers, and the ring holds exactly the bytes that
\* transfer has written so far, from index 0 on.
C5_OutOfBufferSeek ==
    [][/\ (cpc = "idle" /\ cpc' = "seek_join") =>
            /\ m_worker
            /\ c_position' # m_readpos
            /\ ~InBuffer(c_position')
            /\ m_stop'
            /\ UNCHANGED <<m_length, m_curl, range, threads>>
       /\ (cpc = "seek_join" /\ cpc' = "seek_wait") =>
            /\ wpc = "exited"
            /\ wpc' = "spawned"
            /\ threads' = 1
            /\ m_worker'
            /\ ResetDone
            /\ UNCHANGED <<m_length, m_curl>>
            /\ m_curl
            /\ range' = c_position
            /\ \A i \in Indices : m_buffer'[i] = Stale
       /\ (~hdrdone /\ hdrdone' /\ m_startpos' # m_startpos) =>
            /\ m_startpos' = xfer_first'
            /\ m_readpos' = xfer_first'
            /\ m_writepos' = xfer_first'
       /\ (cpc = "seek_wait" /\ op' = "seek" /\ err' = "none") =>
            /\ ret' = m_readpos'
            /\ m_readpos' = m_startpos'
            /\ m_startpos' = xfer_first'
            /\ m_buffertail' = 0
            /\ m_bufferhead' = xfer_accepted'
            /\ \A i \in Indices :
                  m_buffer'[i] = IF i < m_bufferhead' THEN m_startpos' + i
                                                      ELSE Stale
            /\ range' = arg'
            /\ UNCHANGED <<m_length, m_curl>>]_vars

\* a seek forward, past writepos, returned the target from a restarted
\* transfer that has delivered bytes, with the length of the old one kept
C5_Witness ==
    /\ op = "seek"
    /\ err = "none"
    /\ arg = ret
    /\ range = ret
    /\ ret > 2
    /\ ~xfer_seeked
    /\ m_readpos = m_startpos
    /\ m_bufferhead > 0
    /\ m_buffer[0] = ret
    /\ m_length >= ret

\* C6: start raises the transport-failed error only if no write callback
\* accepted data for the transfer.
C6_StartRaisesOnlyWithoutData ==
    (op = "start" /\ err = "transfer failed") => xfer_accepted = 0

\* C7: at most one worker thread exists, and m_worker is joinable exactly
\* while it does; a start made while a worker is joinable raises the
\* state-violation error and changes nothing; and a thread is created only
\* when none exists or after the previous one has ended and is joined in the
\* same step.
C7_SingleWorker ==
    /\ [](threads <= 1 /\ (m_worker <=> threads = 1))
    /\ [][(cpc = "idle" /\ m_worker /\ (op' = "start" \/ cpc' = "start_wait")) =>
             /\ op' = "start"
             /\ err' = "already active"
             /\ UNCHANGED <<mem, net, wrk, hist>>]_vars
    /\ [][(wpc' = "spawned" /\ wpc # "spawned") =>
             /\ wpc \in {"none", "exited"}
             /\ wpc = "exited" => cpc = "seek_join"
             /\ threads' = 1]_vars

\* start was refused while the transfer of the existing worker was running
C7_Witness ==
    /\ op = "start"
    /\ err = "already active"
    /\ wpc = "perform"
    /\ threads = 1

\* C8: after a seek that raised because the range could not be set, there is
\* no session, no joinable worker and no thread, positions, ring indices and
\* flags are reset, and start is not refused.
C8_FatalSeekFailure ==
    (op = "seek" /\ err = "setopt failed") =>
        /\ ~m_curl
        /\ ~m_worker
        /\ threads = 0
        /\ wpc = "none"
        /\ m_startpos = 0 /\ m_readpos = 0 /\ m_writepos = 0
        /\ m_bufferhead = 0 /\ m_buffertail = 0
        /\ ~m_started /\ ~m_paused /\ ~m_stop
        /\ cpc = "idle"
        /\ ~StartRefused
        /\ ENABLED start_begin

\* a seek of a stream that had delivered data failed fatally
C8_Witness ==
    /\ op = "seek"
    /\ err = "setopt failed"
    /\ m_length > 0
    /\ arg > 0

\* C9 as stated: every seek made while no worker is joinable raises the
\* state-violation error and changes nothing.
C9_SeekAlwaysRaisesWhenInactive ==
    [][(cpc = "idle" /\ ~m_worker /\ op' = "seek") =>
          /\ err' = "inactive"
          /\ UNCHANGED <<mem, net, wrk, hist>>]_vars

\* C9 as amended: a seek made while no worker is joinable changes nothing and
\* never begins a restart; it raises the state-violation error when its target
\* differs from readpos, and returns the target when the target is readpos.
C9_SeekWhenInactive ==
    [][(cpc = "idle" /\ ~m_worker) =>
          /\ cpc' # "seek_join"
          /\ op' = "seek" =>
                /\ UNCHANGED <<mem, net, wrk, hist>>
                /\ IF arg' = m_readpos
                      THEN err' = "none" /\ ret' = arg'
                      ELSE err' = "inactive"]_vars

\* a seek to another position was refused on an instance without a worker
C9_Witness ==
    /\ op = "seek"
    /\ err = "inactive"
    /\ arg # m_readpos
    /\ ~m_worker
    /\ m_curlresult # "OK"

\* C10: a stop that has set the stop flag and waits for the worker returns,
\* and the stop flag is false when it has.
C10_StopTerminates ==
    (cpc = "stop_join") ~> (op = "stop" /\ cpc = "idle" /\ ~m_stop /\ ~m_worker)

\* stop waits for a worker whose transfer is paused for backpressure
C10_Witness ==
    /\ cpc = "stop_join"
    /\ m_stop
    /\ wpc = "perform"
    /\ xferpaused
    /\ m_paused

\* C11: a read and an in-buffer seek of the same transfer are atomic to each
\* other.  Between a read's snapshot of head and tail and its publication of
\* the tail nothing else moves the tail or readpos; and a read made after an
\* in-buffer seek returns the bytes at the offsets readpos .. readpos + n - 1,
\* where readpos is the one the seek stored (its target) plus what the reads
\* since then returned, and publishes that readpos + n and the tail n further.
C11_ReadSeekAtomic ==
    [][/\ (cpc = "reading" /\ op' # "read") =>
            UNCHANGED <<m_readpos, m_buffertail>>
       /\ (cpc = "reading" /\ op' = "read" /\ xfer_seeked) =>
            /\ rd_bytes' = Run(m_readpos, ret')
            /\ m_readpos' = m_readpos + ret'
            /\ m_buffertail' = (m_buffertail + ret') % BufferSize]_vars

\* C12: the frame of an in-buffer seek.  A seek made on a running instance with
\* a target other than readpos and inside [MinPos, writepos] returns the
\* target in the same step, without raising and without beginning a restart;
\* it stores the target in readpos and leaves the ring contents, head,
\* startpos, writepos, length, started, paused, stop, the session, its range,
\* the transfer and the worker thread as they were.
C12_InBufferSeekFrame ==
    [][(cpc = "idle" /\ m_worker /\ (op' = "seek" \/ cpc' = "seek_join")) =>
          LET target == IF op' = "seek" THEN arg' ELSE c_position'
          IN (target # m_readpos /\ target >= MinPos /\ target <= m_writepos) =>
                /\ op' = "seek"
                /\ err' = "none"
                /\ ret' = target
                /\ m_readpos' = target
                /\ cpc' = "idle"
                /\ UNCHANGED <<m_buffer, m_bufferhead, m_startpos, m_writepos,
                               m_length, m_started, m_paused, m_stop, m_curl,
                               m_curlresult, m_worker>>
                /\ UNCHANGED <<net, wrk>>]_vars

\* a seek back to a position the ring still holds returned while the transfer
\* was paused for backpressure
C12_Witness ==
    /\ op = "seek"
    /\ err = "none"
    /\ xfer_seeked
    /\ cpc = "idle"
    /\ wpc = "perform"
    /\ m_paused
    /\ xferpaused
    /\ m_readpos = ret
    /\ m_readpos < m_writepos
    /\ m_buffertail # m_bufferhead

\* C13: the write callback is all-or-nothing.  Called with a chunk of n bytes,
\* it computes the free space from head and tail as it finds them; if that is
\* less than n + WRITE_PADDING it sets paused, the transfer is paused, and
\* ring, head, writepos, length and started stay as they were and no byte is
\* consumed; else it copies all n bytes to the n cells from head on, modulo
\* the capacity, leaves the other cells alone, stores head + n modulo the
\* capacity, then advances writepos by n, sets started, and n bytes of the
\* stream are consumed.
C13_WriteAllOrNothing ==
    [][/\ (/\ wpc = "perform"
           /\ pending' > 0
           /\ (wpc' = "write_copy" \/ (xferpaused' /\ ~xferpaused))) =>
            IF Available(m_bufferhead, m_buffertail) < pending' + WRITE_PADDING
               THEN /\ m_paused'
                    /\ xferpaused'
                    /\ wpc' = "perform"
                    /\ UNCHANGED <<m_buffer, m_bufferhead, m_writepos, m_length,
                                   m_started, srvpos, xfer_accepted>>
               ELSE /\ wpc' = "write_copy"
                    /\ w_head' = m_bufferhead
                    /\ UNCHANGED <<m_buffer, m_bufferhead, m_writepos, m_length,
                                   m_started, m_paused, xferpaused, srvpos>>
       /\ (wpc = "write_copy" /\ wpc' = "write_commit") =>
            /\ m_bufferhead' = (m_bufferhead + pending) % BufferSize
            /\ \A i \in Indices :
                  LET k == (i - m_bufferhead + BufferSize) % BufferSize
                  IN m_buffer'[i] = IF k < pending THEN srvpos + k ELSE m_buffer[i]
            /\ xfer_accepted' = xfer_accepted + pending
            /\ UNCHANGED <<m_writepos, srvpos, pending>>
       /\ (wpc = "write_commit" /\ wpc' = "perform") =>
            /\ m_writepos' = m_writepos + pending
            /\ srvpos' = srvpos + pending
            /\ pending' = 0
            /\ m_started'
            /\ UNCHANGED <<m_buffer, m_bufferhead>>]_vars

\* a chunk of two bytes has been copied across the end of the ring, one byte
\* on each side, after the ring had been filled once
C13_Witness ==
    /\ wpc = "write_commit"
    /\ pending = 2
    /\ m_bufferhead = 1
    /\ m_buffer[BufferSize - 1] = srvpos
    /\ m_buffer[0] = srvpos + 1
    /\ ~m_paused
    /\ xfer_accepted > BufferSize

\* C14: whenever no write callback is between its snapshot and its return,
\* head == tail holds exactly if there is no unread byte, readpos == writepos.
C14_EmptyIffHeadIsTail ==
    (wpc \notin {"write_copy", "write_commit"}) =>
        ((m_bufferhead = m_buffertail) <=> (m_readpos = m_writepos))

\* C15: head and tail are indices of the ring in every state.
C15_IndicesInRange ==
    /\ m_bufferhead >= 0 /\ m_bufferhead < BufferSize
    /\ m_buffertail >= 0 /\ m_buffertail < BufferSize

\* C16: in every state readpos is at most writepos and at least the smallest
\* position the ring represents.
C16_ReadposWithinBuffer ==
    /\ m_readpos <= m_writepos
    /\ m_readpos >= MinPos

\* the worker thread exists and has not returned from transfer_func
WorkerRuns == wpc \in {"spawned", "perform", "write_copy", "write_commit", "performed"}

C18_WorkerWithinSession ==
    /\ [](m_worker => m_curl)
    /\ [][(m_curl /\ ~m_curl') =>
             \/ ~m_worker
             \/ cpc \in {"stop_join", "seek_join"} /\ wpc = "exited" /\ ~m_worker']_vars

\* C19: backpressure makes progress without loss.  A paused transfer is one
\* the paused flag tells of and that holds the refused chunk; the paused flag
\* of a running transfer is cleared only by a progress tick that finds stop
\* not set, and that tick resumes the transfer with the same chunk held; the
\* chunk held changes only by being accepted whole, which advances writepos
\* and the stream by its size, or by the transfer ending; the bytes copied
\* are the bytes consumed, none skipped, none twice; and with a consumer that
\* keeps reading, a paused transfer's chunk is eventually accepted unless the
\* transfer ends first.
C19_BackpressureProgress ==
    /\ [](xferpaused => (m_paused /\ pending > 0 /\ wpc = "perform"))
    /\ []((wpc = "perform" /\ hdrdone) => xfer_accepted = srvpos - xfer_first)
    /\ [][(m_paused /\ ~m_paused' /\ m_worker') =>
             /\ wpc = "perform"
             /\ ~m_stop
             /\ ~xferpaused'
             /\ UNCHANGED <<pending, srvpos, m_buffer, m_bufferhead, m_writepos>>]_vars
    /\ [][(pending # 0 /\ pending' # pending) =>
             /\ pending' = 0
             /\ \/ /\ wpc = "write_commit"
                   /\ srvpos' = srvpos + pending
                   /\ m_writepos' = m_writepos + pending
                \/ wpc' = "performed"]_vars
    /\ xferpaused ~> (pending = 0)

\* the transfer is paused with a chunk of the largest size held back, the
\* ring as full as the padding lets it be, and no stop signalled
C19_Witness ==
    /\ wpc = "perform"
    /\ xferpaused
    /\ m_paused
    /\ ~m_stop
    /\ pending = MaxChunk
    /\ m_writepos - m_readpos = BufferSize - WRITE_PADDING
    /\ cpc = "idle"

\* C20: the started signal releases every waiter.  started is false when a
\* worker is spawned; it becomes true only by a write that was accepted or by
\* the end of transfer_func; a start or seek that waits for it goes on only
\* when it is true and the worker spawned for it has had a write accepted or
\* has ended; and every such wait ends: the call returns or raises.
C20_StartedReleasesWaiters ==
    /\ [][(wpc' = "spawned" /\ wpc # "spawned") => ~m_started']_vars
    /\ [][(~m_started /\ m_started') => wpc \in {"write_commit", "performed"}]_vars
    /\ [][(cpc \in {"start_wait", "seek_wait"} /\ cpc' = "idle") =>
             /\ m_started
             /\ xfer_accepted > 0 \/ wpc = "exited"
             /\ op' \in {"start", "seek"}]_vars
    /\ (cpc \in {"start_wait", "seek_wait"}) ~> (cpc = "idle")

\* a seek waits for the restarted transfer, which has ended with a failure
\* that is about to be signalled
C20_Witness ==
    /\ cpc = "seek_wait"
    /\ ~m_started
    /\ wpc = "performed"
    /\ m_curlresult = "FAIL"
    /\ xfer_accepted = 0

\* C21: every worker starts from a clean state.  In the step in which start
\* or seek spawns a worker, whatever happened before, the new thread finds
\* stop, paused and started false, head and tail 0 and startpos, readpos and
\* writepos 0; start itself changes none of these when it spawns (it finds
\* them so), while seek resets them in the step in which it spawns.
C21_CleanStateAtSpawn ==
    [][(wpc' = "spawned" /\ wpc # "spawned") =>
          /\ cpc' \in {"start_wait", "seek_wait"}
          /\ ~m_stop'
          /\ ~m_paused'
          /\ ~m_started'
          /\ m_bufferhead' = 0 /\ m_buffertail' = 0
          /\ m_startpos' = 0 /\ m_readpos' = 0 /\ m_writepos' = 0
          /\ cpc' = "start_wait" =>
                UNCHANGED <<m_stop, m_paused, m_started, m_bufferhead,
                            m_buffertail, m_startpos, m_readpos, m_writepos>>]_vars

\* start has spawned a worker after an earlier one whose transfer failed by
\* itself: the stop flag set for that one was never consumed by the progress
\* callback, and it is false
C21_Witness ==
    /\ wpc = "spawned"
    /\ cpc = "start_wait"
    /\ m_curlresult = "FAIL"
    /\ ~m_stop
    /\ threads = 1

====
